---- MODULE Spec2Model ----
(***************************************************************************)
(* A state-machine model of the resume analyzer: the sqlite store of       *)
(* database.py (users, analysis_history), the Streamlit session and page   *)
(* handlers of app.py, and the response parsing of utils.py.               *)
(***************************************************************************)
EXTENDS Integers, Sequences, FiniteSets, TLC

\* ------------------------------------------------------------------------
\* Bounds of the model
\* ------------------------------------------------------------------------
MaxUsers == 2
MaxRecords == 2
MaxTime == 1
MaxWrap == 1

\* ------------------------------------------------------------------------
\* Input domains
\* ------------------------------------------------------------------------
Usernames == {"alice", "bob", ""}
Emails == {"a@example.com", ""}
Passwords == {"secret1", "hunter22", "short"}
Filenames == {"cv.pdf"}
JobTitles == {""}
JobDescriptions == {"", "Needs Kubernetes and Go"}
ApiKeys == {"", "key"}
StoreErrors == {"none", "OperationalError"}

\* Python's None where the other values are integers (row ids start at 1).
None == 0

\* Session keys that have not been assigned yet ('analysis_result' not in
\* st.session_state).
Unset == [kind |-> "unset"]

VARIABLES
    users,              \* rows of table users
    user_seq,           \* AUTOINCREMENT counter of users
    analysis_history,   \* rows of table analysis_history
    history_seq,        \* AUTOINCREMENT counter of analysis_history
    now,                \* CURRENT_TIMESTAMP of the last insert, in whole seconds
    session,            \* st.session_state
    last,               \* the handler or store call that ran last, with its outcome
    response,           \* text returned by the external model (assessment runs)
    assessment          \* what analyze_resume_with_gemini returned for it

vars == <<users, user_seq, analysis_history, history_seq, now, session, last,
          response, assessment>>

storeVars == <<users, user_seq, analysis_history, history_seq>>

\* ------------------------------------------------------------------------
\* database.py
\* ------------------------------------------------------------------------

\* hashlib.sha256(password.encode()).hexdigest()
sha256_hexdigest(password) ==
    CASE password = "secret1" ->
            "5b11618c2e44027877d0cd0921ed166b9f176f50587fc91e7534dd2946db77d6"
      [] password = "hunter22" ->
            "20d2fe5e369db54ec7090639a9dc30ec4d608604936239d39e2de07fda09eb0b"
      [] password = "short" ->
            "f9b0078b5df596d2ea19010c001bbd009e651de2c57e8fb7e355f31eb9d3f739"

hash_password(password) == sha256_hexdigest(password)

\* create_user as it would be without the UNIQUE constraint on username
create_user_no_unique(tbl, seq, username, email, password, err) ==
    IF err # "none"
    THEN [ret |-> FALSE, exc |-> err, users |-> tbl, seq |-> seq]
    ELSE [ret |-> TRUE, exc |-> "none",
          users |-> tbl \cup {[id |-> seq + 1, username |-> username,
                               email |-> email,
                               password_hash |-> hash_password(password)]},
          seq |-> seq + 1]

\* The outcome of create_user on a users table: the value returned, the table
\* and the AUTOINCREMENT counter afterwards.  The UNIQUE constraint on
\* username raises IntegrityError; err is any other exception of the store.
create_user(tbl, seq, username, email, password, err) ==
    LET password_hash == hash_password(password)
        row == [id |-> seq + 1, username |-> username, email |-> email,
                password_hash |-> password_hash]
    IN  IF err # "none"
        THEN [ret |-> FALSE, exc |-> err, users |-> tbl, seq |-> seq]
        ELSE IF \E u \in tbl : u.username = username
        THEN [ret |-> FALSE, exc |-> "IntegrityError", users |-> tbl, seq |-> seq]
        ELSE [ret |-> TRUE, exc |-> "none", users |-> tbl \cup {row},
              seq |-> seq + 1]

\* verify_user as it would be if it compared the stored digest with the
\* password itself
verify_user_unhashed(tbl, username, password) ==
    LET result == {u \in tbl : u.username = username
                               /\ u.password_hash = password}
    IN  IF result # {} THEN (CHOOSE u \in result : TRUE).id ELSE None

\* verify_user as it would be if it looked the username up first and
\* answered -1 for a wrong password
verify_user_leaky(tbl, username, password) ==
    LET byName == {u \in tbl : u.username = username}
        result == {u \in byName : u.password_hash = hash_password(password)}
    IN  IF byName = {} THEN None
        ELSE IF result # {} THEN (CHOOSE u \in result : TRUE).id ELSE -1

\* SELECT id FROM users WHERE username = ? AND password_hash = ?; fetchone()
verify_user(tbl, username, password) ==
    LET password_hash == hash_password(password)
        result == {u \in tbl : u.username = username
                               /\ u.password_hash = password_hash}
    IN  IF result # {} THEN (CHOOSE u \in result : TRUE).id ELSE None

\* CURRENT_TIMESTAMP when a row is inserted, counted from the second of the
\* first insert: the second of the previous insert or a later one.
Timestamps ==
    IF history_seq = 0 THEN {0} ELSE {t \in {now, now + 1} : t <= MaxTime}

\* INSERT INTO analysis_history ...; created_at DEFAULT CURRENT_TIMESTAMP
save_analysis(tbl, seq, user_id, filename, match_score, job_title, analysis_data, current_timestamp) ==
    tbl \cup {[id |-> seq + 1, user_id |-> user_id, filename |-> filename,
               match_score |-> match_score, job_title |-> job_title,
               analysis_data |-> analysis_data,
               created_at |-> current_timestamp]}

Min(a, b) == IF a < b THEN a ELSE b

\* SELECT ... WHERE user_id = ? ORDER BY created_at DESC LIMIT ?
\* created_at has a resolution of one second and the query names no second
\* sort key, so rows written in the same second come back in an order that
\* SQL leaves open: every order the query allows is a possible result.
get_user_history(tbl, user_id, limit) ==
    LET rows == {r \in tbl : r.user_id = user_id}
        n == Min(limit, Cardinality(rows))
    IN  {s \in [1..n -> rows] :
            /\ \A i, j \in 1..n : i < j =>
                   /\ s[i] # s[j]
                   /\ s[i].created_at >= s[j].created_at
            /\ \A r \in rows :
                   (\A i \in 1..n : s[i] # r) =>
                       \A i \in 1..n : s[i].created_at >= r.created_at}

\* delete_analysis as it would be with WHERE id = ? alone
delete_analysis_by_id_only(tbl, user_id, analysis_id) ==
    [ret |-> TRUE, history |-> {r \in tbl : r.id # analysis_id}]

\* DELETE FROM analysis_history WHERE id = ? AND user_id = ?; return True
delete_analysis(tbl, user_id, analysis_id) ==
    [ret |-> TRUE,
     history |-> {r \in tbl : ~(r.id = analysis_id /\ r.user_id = user_id)}]

\* Values of a result row as sqlite3 hands them to Python: NULL arrives as
\* None, an INTEGER as an int, and AVG as a float, kept here as the exact
\* quotient num / den.
SqlNull == [t |-> "NULL"]

SqlInt(n) == [t |-> "int", v |-> n]

SqlReal(num, den) == [t |-> "real", num |-> num, den |-> den]

\* The aggregates of the query of get_user_stats over the selected rows.
\* COUNT(*) of no rows is 0; AVG, MAX and MIN of no rows are NULL.
COUNT(rows) == SqlInt(Cardinality(rows))

RECURSIVE total(_)
total(rows) ==
    IF rows = {} THEN 0
    ELSE LET r == CHOOSE x \in rows : TRUE
         IN  r.match_score + total(rows \ {r})

AVG(rows) ==
    IF rows = {} THEN SqlNull ELSE SqlReal(total(rows), Cardinality(rows))

MAX(rows) ==
    IF rows = {} THEN SqlNull
    ELSE SqlInt(CHOOSE m \in {r.match_score : r \in rows} :
                    \A r \in rows : r.match_score <= m)

MIN(rows) ==
    IF rows = {} THEN SqlNull
    ELSE SqlInt(CHOOSE m \in {r.match_score : r \in rows} :
                    \A r \in rows : r.match_score >= m)

\* SELECT COUNT(*), AVG(match_score), MAX(match_score), MIN(match_score)
\* FROM analysis_history WHERE user_id = ?; fetchone().  A query of bare
\* aggregates yields one row whatever the WHERE clause selects, so result is
\* a 4-tuple, which Python takes as true, and every "if result else 0"
\* passes the column on.
get_user_stats(tbl, user_id) ==
    LET rows == {r \in tbl : r.user_id = user_id}
        result == <<COUNT(rows), AVG(rows), MAX(rows), MIN(rows)>>
    IN  [total_analyses |-> IF Len(result) > 0 THEN result[1] ELSE SqlInt(0),
         avg_score |-> IF Len(result) > 0 THEN result[2] ELSE SqlInt(0),
         best_score |-> IF Len(result) > 0 THEN result[3] ELSE SqlInt(0),
         lowest_score |-> IF Len(result) > 0 THEN result[4] ELSE SqlInt(0)]

\* ------------------------------------------------------------------------
\* utils.py
\* ------------------------------------------------------------------------

\* Text is a sequence of tokens.  A PDF's text is made of words "w" and
\* whitespace characters "ws".
PdfFiles ==
    { [name |-> f, readable |-> FALSE, chars |-> <<>>] : f \in Filenames }
    \cup
    { [name |-> f, readable |-> TRUE, chars |-> c] :
        f \in Filenames,
        c \in { <<"ws", "ws">>, <<"ws", "w", "ws", "ws", "w", "ws">> } }

\* re.sub(r'\s+', ' ', text): every run of whitespace becomes one space
RECURSIVE collapse_whitespace(_)
collapse_whitespace(chars) ==
    IF chars = <<>> THEN <<>>
    ELSE IF Head(chars) = "ws"
         THEN IF Len(chars) > 1 /\ chars[2] = "ws"
              THEN collapse_whitespace(Tail(chars))
              ELSE <<" ">> \o collapse_whitespace(Tail(chars))
         ELSE <<Head(chars)>> \o collapse_whitespace(Tail(chars))

\* str.strip() on a text whose whitespace tokens are those in blanks
RECURSIVE lstrip(_, _)
lstrip(text, blanks) ==
    IF text # <<>> /\ Head(text) \in blanks THEN lstrip(Tail(text), blanks)
    ELSE text

RECURSIVE rstrip(_, _)
rstrip(text, blanks) ==
    IF text # <<>> /\ text[Len(text)] \in blanks
    THEN rstrip(SubSeq(text, 1, Len(text) - 1), blanks)
    ELSE text

strip(text, blanks) == rstrip(lstrip(text, blanks), blanks)

NoText == [kind |-> "None"]

\* The text of the PDF, whitespace-normalised; None when the library raises.
extract_text_from_pdf(pdf_file) ==
    IF ~pdf_file.readable THEN NoText
    ELSE [kind |-> "str",
          text |-> strip(collapse_whitespace(pdf_file.chars), {" "})]

\* Tokens of a model response: prose, the code-fence markers (three
\* backquotes, with or without "json"), whitespace, and a JSON object.
Prose == [t |-> "prose"]
FenceJson == [t |-> "fence_json"]
Fence == [t |-> "fence"]
Ws == [t |-> "ws"]

required_fields ==
    {"match_score", "missing_skills", "profile_summary", "improvements"}

\* JSON values the model may put under match_score
ScoreInts == {-1, 0, 73, 100, 101}
ScoreStrings == {"73", "high"}
ScoreValues ==
    { [t |-> "int", v |-> n] : n \in ScoreInts }
    \cup { [t |-> "str", v |-> s] : s \in ScoreStrings }

FieldValue(k) ==
    CASE k = "missing_skills" -> [t |-> "list", v |-> <<"Kubernetes", "Go">>]
      [] k = "profile_summary" -> [t |-> "str", v |-> "Strong backend profile"]
      [] k = "improvements" -> [t |-> "list", v |-> <<"Add metrics">>]

\* A JSON object: a function from the keys it has to their values.
JsonObject(keys, score) ==
    [k \in keys |-> IF k = "match_score" THEN score ELSE FieldValue(k)]

JsonObjects ==
    { JsonObject(keys, score) : keys \in SUBSET required_fields,
                                score \in ScoreValues }

ObjToken(obj) == [t |-> "obj", obj |-> obj]

\* Python's int(): an int stays, a string of digits is parsed, anything else
\* raises ValueError.
int_raises(x) == ~(x.t = "int" \/ (x.t = "str" /\ x.v = "73"))
int(x) == IF x.t = "int" THEN x.v ELSE 73

\* re.sub(fence + r'\s*', '', text): drops every fence token and the
\* whitespace that follows it; inFence is TRUE right after a dropped fence.
RECURSIVE re_sub_fence(_, _, _)
re_sub_fence(fence, text, inFence) ==
    IF text = <<>> THEN <<>>
    ELSE IF Head(text) = fence THEN re_sub_fence(fence, Tail(text), TRUE)
    ELSE IF inFence /\ Head(text) = Ws
         THEN re_sub_fence(fence, Tail(text), TRUE)
    ELSE <<Head(text)>> \o re_sub_fence(fence, Tail(text), FALSE)

\* Remove markdown code blocks if present
remove_code_blocks(text) ==
    re_sub_fence(Fence, re_sub_fence(FenceJson, text, FALSE), FALSE)

\* json.loads accepts one JSON value with whitespace around it and raises
\* JSONDecodeError on anything else.
IsBlank(tok) == tok = Ws
json_loads_raises(text) ==
    LET body == SelectSeq(text, LAMBDA tok : ~IsBlank(tok))
    IN  ~(Len(body) = 1 /\ body[1].t = "obj")
json_loads(text) ==
    (SelectSeq(text, LAMBDA tok : ~IsBlank(tok)))[1].obj

\* The validation as it would be with any() in place of all()
has_required_fields_any(analysis) ==
    \E field \in required_fields : field \in DOMAIN analysis

\* all(field in analysis for field in required_fields)
has_required_fields(analysis) ==
    \A field \in required_fields : field \in DOMAIN analysis

NoAnalysis == [kind |-> "None"]

\* The value analyze_resume_with_gemini returns for a model response: the
\* parsed object with match_score coerced to int, or None after any exception.
analyze_resume_with_gemini(resp) ==
    IF resp.raises THEN NoAnalysis
    ELSE
    LET response_text == remove_code_blocks(strip(resp.text, {Ws}))
    IN  IF json_loads_raises(response_text) THEN NoAnalysis
        ELSE
        LET analysis == json_loads(response_text)
        IN  IF ~has_required_fields(analysis) THEN NoAnalysis
            ELSE IF "match_score" \notin DOMAIN analysis THEN NoAnalysis
            ELSE IF int_raises(analysis["match_score"]) THEN NoAnalysis
            ELSE [kind |-> "dict",
                  fields |-> [k \in DOMAIN analysis |->
                                 IF k = "match_score"
                                 THEN [t |-> "int", v |-> int(analysis[k])]
                                 ELSE analysis[k]]]

\* Text the model may put before or after the JSON object.
WrapTokens == {Prose, FenceJson, Fence, Ws}
Wraps == UNION { [1..n -> WrapTokens] : n \in 0..MaxWrap }

ModelFailure == [raises |-> TRUE, text |-> <<>>]
ResponseOf(pre, obj, post) ==
    [raises |-> FALSE, text |-> pre \o <<ObjToken(obj)>> \o post]

Responses ==
    {ModelFailure}
    \cup { ResponseOf(pre, obj, post) :
             pre \in Wraps, obj \in JsonObjects, post \in Wraps }

\* export_analysis: the report text, kept as its variable parts (the line
\* "Report Generated" carries the wall clock and is left out).  An empty list
\* of skills or improvements is replaced by a fixed line.
export_analysis(analysis_result, filename, job_title) ==
    [resume_file |-> filename,
     target_job |-> job_title,
     match_score |-> analysis_result["match_score"],
     profile_summary |-> analysis_result["profile_summary"],
     missing_skills |->
         IF analysis_result["missing_skills"].v # <<>>
         THEN analysis_result["missing_skills"].v
         ELSE <<"All key skills from job description are present">>,
     improvements |->
         IF analysis_result["improvements"].v # <<>>
         THEN analysis_result["improvements"].v
         ELSE <<"Resume is well-optimized">>]

\* ------------------------------------------------------------------------
\* app.py
\* ------------------------------------------------------------------------

\* Python's None where the other values are strings.
NoneStr == "<None>"
NoFile == [kind |-> "None"]
\* A step of a handler that was not reached, a call that was not made.
NotRun == [kind |-> "pending"]
DefaultLimit == 10
MinPasswordLen == 6

\* Responses of the external model that the analyze handler is run with.
AppScores ==
    { [t |-> "int", v |-> 73], [t |-> "int", v |-> 101] }
AppResponses ==
    {ModelFailure}
    \cup { ResponseOf(<<>>, JsonObject(required_fields, sc), <<>>) :
             sc \in AppScores }
    \cup { ResponseOf(<<>>,
                      JsonObject(required_fields \ {k}, [t |-> "int", v |-> 73]),
                      <<>>) : k \in {"improvements"} }

\* Session state initialisation (app.py, top of the script)
InitSession ==
    [logged_in |-> FALSE, username |-> NoneStr, user_id |-> None,
     page |-> "dashboard", analysis_result |-> Unset,
     uploaded_filename |-> NoneStr, job_title |-> NoneStr]

\* The Logout button as it would be if it left session.page as it is
Logout_keeps_page ==
    /\ session.logged_in
    /\ session' = [session EXCEPT !.logged_in = FALSE, !.username = NoneStr,
                                  !.user_id = None]
    /\ last' = [op |-> "logout"]
    /\ UNCHANGED <<storeVars, now, response, assessment>>

\* Sidebar: the Logout button
Logout ==
    /\ session.logged_in
    /\ session' = [session EXCEPT !.logged_in = FALSE, !.username = NoneStr,
                                  !.user_id = None, !.page = "dashboard"]
    /\ last' = [op |-> "logout"]
    /\ UNCHANGED <<storeVars, now, response, assessment>>

\* Whether some account has this username.
IsRegistered(username) == \E u \in users : u.username = username

\* login_page, tab Login: the form is submitted
LoginSubmit(username, password) ==
    /\ ~session.logged_in
    /\ LET user_id == verify_user(users, username, password)
       IN  IF user_id # None
           THEN /\ session' = [session EXCEPT !.logged_in = TRUE,
                                              !.username = username,
                                              !.user_id = user_id]
                /\ last' = [op |-> "login",
                            registered |-> IsRegistered(username),
                            ret |-> user_id, msg |-> "Login successful!"]
           ELSE /\ session' = session
                /\ last' = [op |-> "login",
                            registered |-> IsRegistered(username),
                            ret |-> user_id,
                            msg |-> "Invalid username or password"]
    /\ UNCHANGED <<storeVars, now, response, assessment>>

\* login_page, tab Register: the form is submitted
\* (err: the exception, if any, that the store raises inside create_user)
RegisterSubmit(new_username, new_email, new_password, confirm_password) ==
    /\ ~session.logged_in
    /\ IF new_password # confirm_password
       THEN /\ last' = [op |-> "register", called |-> FALSE,
                        msg |-> "Passwords do not match"]
            /\ UNCHANGED <<users, user_seq>>
       ELSE IF Len(new_password) < MinPasswordLen
       THEN /\ last' = [op |-> "register", called |-> FALSE,
                        msg |-> "Password must be at least 6 characters"]
            /\ UNCHANGED <<users, user_seq>>
       ELSE IF new_username = "" \/ new_email = ""
       THEN /\ last' = [op |-> "register", called |-> FALSE,
                        msg |-> "All fields are required"]
            /\ UNCHANGED <<users, user_seq>>
       ELSE \E err \in StoreErrors :
            LET r == create_user(users, user_seq, new_username, new_email,
                                 new_password, err)
            IN  /\ r.ret => user_seq < MaxUsers
                /\ users' = r.users
                /\ user_seq' = r.seq
                /\ last' = [op |-> "register", called |-> TRUE,
                            taken |-> IsRegistered(new_username),
                            ret |-> r.ret, exc |-> r.exc,
                            msg |-> IF r.ret
                                    THEN "Registration successful! Please login."
                                    ELSE "Username already exists"]
    /\ UNCHANGED <<analysis_history, history_seq, now, session, response,
                   assessment>>

\* dashboard_page is rendered: the history is fetched and shown
dashboard_page ==
    /\ session.logged_in
    /\ session.page = "dashboard"
    /\ \E history \in get_user_history(analysis_history, session.user_id,
                                        DefaultLimit) :
           last' = [op |-> "dashboard_page", history |-> history]
    /\ UNCHANGED <<storeVars, now, session, response, assessment>>

\* dashboard_page: the button Start New Analysis
StartNewAnalysis ==
    /\ session.logged_in
    /\ session.page = "dashboard"
    /\ session' = [session EXCEPT !.page = "upload"]
    /\ last' = [op |-> "navigate"]
    /\ UNCHANGED <<storeVars, now, response, assessment>>

\* upload_page and results_page: the button Back to Dashboard
BackToDashboard ==
    /\ session.logged_in
    /\ session.page \in {"upload", "results"}
    /\ session' = [session EXCEPT !.page = "dashboard"]
    /\ last' = [op |-> "navigate"]
    /\ UNCHANGED <<storeVars, now, response, assessment>>

\* results_page: the button Analyze Another Resume
AnalyzeAnother ==
    /\ session.logged_in
    /\ session.page = "results"
    /\ session' = [session EXCEPT !.page = "upload"]
    /\ last' = [op |-> "navigate"]
    /\ UNCHANGED <<storeVars, now, response, assessment>>

\* results_page is drawn: a warning if the session holds no analysis_result,
\* else the result kept in the session
results_page ==
    /\ session.logged_in
    /\ session.page = "results"
    /\ last' = [op |-> "results_page",
                msg |-> IF session.analysis_result = Unset
                        THEN "No analysis results found. Please upload a resume first."
                        ELSE "",
                result |-> session.analysis_result]
    /\ UNCHANGED <<storeVars, now, session, response, assessment>>

\* results_page: the button Download Report (TXT)
DownloadReport ==
    /\ session.logged_in
    /\ session.page = "results"
    /\ session.analysis_result # Unset
    /\ last' = [op |-> "export_analysis",
                report_text |-> export_analysis(session.analysis_result.fields,
                                                session.uploaded_filename,
                                                session.job_title)]
    /\ UNCHANGED <<storeVars, now, session, response, assessment>>

\* The handler as it would be if it tested "resume_text is None" in place of
\* "not resume_text"
analyze_outcome_none_only(uploaded_file, job_description, api_key, resume_text, analysis_result) ==
    IF uploaded_file = NoFile THEN "validation"
    ELSE IF job_description = "" THEN "validation"
    ELSE IF api_key = "" THEN "validation"
    ELSE IF resume_text = NotRun THEN "extracting"
    ELSE IF resume_text = NoText THEN "extraction"
    ELSE IF analysis_result = NotRun THEN "analyzing"
    ELSE IF analysis_result = NoAnalysis \/ DOMAIN analysis_result.fields = {}
         THEN "assessment"
    ELSE "ok"

\* How far the Analyze Resume handler of upload_page gets with its inputs.
analyze_outcome(uploaded_file, job_description, api_key, resume_text, analysis_result) ==
    IF uploaded_file = NoFile THEN "validation"
    ELSE IF job_description = "" THEN "validation"
    ELSE IF api_key = "" THEN "validation"
    ELSE IF resume_text = NotRun THEN "extracting"
    ELSE IF resume_text = NoText \/ resume_text.text = <<>> THEN "extraction"
    ELSE IF analysis_result = NotRun THEN "analyzing"
    ELSE IF analysis_result = NoAnalysis \/ DOMAIN analysis_result.fields = {}
         THEN "assessment"
    ELSE "ok"

\* upload_page: the button Analyze Resume
\* (the external model's response is drawn when the handler gets to the call)
AnalyzeResume(uploaded_file, job_description, api_key, job_title) ==
    /\ session.logged_in
    /\ session.page = "upload"
    /\ LET valid == analyze_outcome(uploaded_file, job_description, api_key,
                                    NotRun, NotRun) # "validation"
           resume_text == IF valid THEN extract_text_from_pdf(uploaded_file)
                          ELSE NotRun
           extracted == valid /\ analyze_outcome(uploaded_file, job_description,
                                     api_key, resume_text, NotRun) # "extraction"
           title == IF job_title = "" THEN "Not Specified" ELSE job_title
       IN  \E resp \in IF extracted THEN AppResponses ELSE {ModelFailure} :
           LET analysis_result == IF extracted
                                  THEN analyze_resume_with_gemini(resp)
                                  ELSE NotRun
               outcome == analyze_outcome(uploaded_file, job_description,
                                          api_key, resume_text, analysis_result)
           IN  /\ outcome = "ok" => history_seq < MaxRecords
               /\ last' = [op |-> "analyze", outcome |-> outcome,
                           inputs_given |-> /\ uploaded_file # NoFile
                                            /\ job_description # ""
                                            /\ api_key # "",
                           resume_text |-> resume_text,
                           analysis_result |-> analysis_result]
               /\ IF outcome = "ok"
                  THEN /\ session' = [session EXCEPT
                                         !.analysis_result = analysis_result,
                                         !.uploaded_filename = uploaded_file.name,
                                         !.job_title = title,
                                         !.page = "results"]
                       /\ \E current_timestamp \in Timestamps :
                            /\ analysis_history' =
                                 save_analysis(analysis_history, history_seq,
                                     session.user_id, uploaded_file.name,
                                     analysis_result.fields["match_score"].v,
                                     title,
                                     [kind |-> "str", of |-> analysis_result],
                                     current_timestamp)
                            /\ now' = current_timestamp
                       /\ history_seq' = history_seq + 1
                  ELSE UNCHANGED <<session, analysis_history, history_seq, now>>
    /\ UNCHANGED <<users, user_seq, response, assessment>>

\* What a record id refers to, seen from an account: a record of its own, a
\* record of another account, or no record.
Target(user_id, analysis_id) ==
    IF \E r \in analysis_history : r.id = analysis_id /\ r.user_id = user_id
    THEN "own"
    ELSE IF \E r \in analysis_history : r.id = analysis_id THEN "other"
    ELSE "missing"

\* database.delete_analysis is called for some account and record id
DeleteAnalysis(user_id, analysis_id) ==
    /\ LET r == delete_analysis(analysis_history, user_id, analysis_id)
       IN  /\ analysis_history' = r.history
           /\ last' = [op |-> "delete_analysis",
                       target |-> Target(user_id, analysis_id),
                       ret |-> r.ret]
    /\ UNCHANGED <<users, user_seq, history_seq, now, session, response,
                   assessment>>

\* database.get_user_stats is called for a registered account
GetUserStats(user_id) ==
    /\ last' = [op |-> "get_user_stats", user_id |-> user_id,
                ret |-> get_user_stats(analysis_history, user_id)]
    /\ UNCHANGED <<storeVars, now, session, response, assessment>>

Init ==
    /\ users = {}
    /\ user_seq = 0
    /\ analysis_history = {}
    /\ history_seq = 0
    /\ now = 0
    /\ session = InitSession
    /\ last = [op |-> "init"]
    /\ response = ModelFailure
    /\ assessment = NotRun

Next ==
    \/ Logout
    \/ \E username \in Usernames, password \in Passwords :
           LoginSubmit(username, password)
    \/ \E new_username \in Usernames, new_email \in Emails,
          new_password \in Passwords, confirm_password \in Passwords :
           RegisterSubmit(new_username, new_email, new_password,
                          confirm_password)
    \/ dashboard_page
    \/ StartNewAnalysis
    \/ BackToDashboard
    \/ AnalyzeAnother
    \/ results_page
    \/ DownloadReport
    \/ \E uploaded_file \in PdfFiles \cup {NoFile},
          job_description \in JobDescriptions, api_key \in ApiKeys,
          job_title \in JobTitles :
           AnalyzeResume(uploaded_file, job_description, api_key, job_title)
    \/ \E user_id \in 1..MaxUsers, analysis_id \in 1..MaxRecords :
           DeleteAnalysis(user_id, analysis_id)
    \/ \E u \in users : GetUserStats(u.id)

Spec == Init /\ [][Next]_vars

\* ------------------------------------------------------------------------
\* The assessment request on its own: one model response, parsed once
\* ------------------------------------------------------------------------
RequestAssessment ==
    /\ assessment = NotRun
    /\ assessment' = analyze_resume_with_gemini(response)
    /\ UNCHANGED <<storeVars, now, session, last, response>>

InitAssess ==
    /\ users = {}
    /\ user_seq = 0
    /\ analysis_history = {}
    /\ history_seq = 0
    /\ now = 0
    /\ session = InitSession
    /\ last = [op |-> "init"]
    /\ response \in Responses
    /\ assessment = NotRun

NextAssess == RequestAssessment

SpecAssess == InitAssess /\ [][NextAssess]_vars

\* ------------------------------------------------------------------------
\* Properties
\* ------------------------------------------------------------------------

\* C1: a delete_analysis call whose record id belongs to another account
\* leaves every stored record unchanged, and listing the owner's history
\* afterwards still returns the record.
DeleteOfForeignRecordKeepsIt ==
    [][(last'.op = "delete_analysis" /\ last'.target = "other")
        => /\ analysis_history' = analysis_history
           /\ \A r \in analysis_history :
                 \A h \in get_user_history(analysis_history', r.user_id,
                                           DefaultLimit) :
                    \E i \in DOMAIN h : h[i] = r]_vars

\* A delete was asked for a record of another account, and the record is there.
ForeignDeleteHappened ==
    /\ last.op = "delete_analysis"
    /\ last.target = "other"
    /\ Cardinality(users) = 2
    /\ analysis_history # {}

\* C2: delete_analysis returns Ok exactly when a record owned by the account
\* was removed; for a record of another account or no record it does not
\* return Ok.
DeleteReportsNotFound ==
    last.op = "delete_analysis" => (last.ret = TRUE <=> last.target = "own")

\* C3: no two accounts share a username, and a registration with a username
\* that is taken returns False (username already exists) and leaves the
\* accounts and the id counter as they were.
UsernameIdentifiesOneAccount ==
    /\ [](\A a, b \in users : a.username = b.username => a = b)
    /\ [][(last'.op = "register" /\ last'.called /\ last'.taken)
            => /\ last'.ret = FALSE
               /\ last'.msg = "Username already exists"
               /\ users' = users
               /\ user_seq' = user_seq]_vars

\* A registration reached create_user with a username that was taken.
TakenUsernameRejected ==
    /\ last.op = "register"
    /\ last.called
    /\ last.taken
    /\ last.exc = "IntegrityError"

\* C4: after a successful registration the same username and password
\* authenticate; a pair that authenticates keeps authenticating to the same
\* account id whatever happens next; and the login form puts that id in the
\* session.
RegisteredCredentialsKeepAuthenticating ==
    [][/\ (last'.op = "register" /\ last'.called /\ last'.ret)
          => \A u \in Usernames, e \in Emails, p \in Passwords :
                RegisterSubmit(u, e, p, p) => verify_user(users', u, p) # None
       /\ users' # users
          => /\ users \subseteq users'
             /\ \A u \in Usernames, p \in Passwords :
                   verify_user(users, u, p) # None
                   => verify_user(users', u, p) = verify_user(users, u, p)
       /\ last'.op = "login"
          => \A u \in Usernames, p \in Passwords :
                (LoginSubmit(u, p) /\ verify_user(users, u, p) # None)
                => /\ session'.logged_in
                   /\ session'.user_id = verify_user(users, u, p)
                   /\ last'.ret = verify_user(users, u, p)]_vars

\* A login succeeded after a second account was registered and analyses
\* were saved.
LoginAfterOtherActivity ==
    /\ last.op = "login"
    /\ last.ret # None
    /\ session.logged_in
    /\ Cardinality(users) = 2
    /\ analysis_history # {}

\* C5: a login that fails, because the username is unknown or because the
\* password is wrong, returns None, shows the one message and leaves the
\* session logged out with no user: the two failures look the same.
LoginFailuresLookAlike ==
    [][last'.op = "login" =>
        \A u \in Usernames, p \in Passwords :
            (LoginSubmit(u, p)
             /\ ~\E a \in users : /\ a.username = u
                                   /\ a.password_hash = hash_password(p))
            => /\ last'.ret = None
               /\ last'.msg = "Invalid username or password"
               /\ session' = session
               /\ ~session'.logged_in
               /\ session'.user_id = None
               /\ session'.username = NoneStr]_vars

\* A login with a registered username and a wrong password failed.
WrongPasswordRejected ==
    /\ last.op = "login"
    /\ last.registered
    /\ last.ret = None

\* The JSON object inside a model response.
ObjectOf(resp) == (SelectSeq(resp.text, LAMBDA tok : tok.t = "obj"))[1].obj

\* C6: a response whose JSON object lacks one of the four required keys makes
\* analyze_resume_with_gemini return None, never a dict, whichever keys are
\* there.
MissingKeyRejected ==
    (/\ assessment # NotRun
     /\ ~response.raises
     /\ \E field \in required_fields : field \notin DOMAIN ObjectOf(response))
    => assessment = NoAnalysis

\* A bare object with three of the four keys was rejected.
ThreeKeysRejected ==
    /\ assessment = NoAnalysis
    /\ response = ResponseOf(<<>>,
                             JsonObject(required_fields \ {"improvements"},
                                        [t |-> "int", v |-> 73]),
                             <<>>)

\* C7: an analyze action with a missing input, a failed or empty extraction
\* or a failed assessment leaves the history table unchanged and stays on
\* the upload page; a record is added only by an analyze action with all
\* inputs, a non-empty text and an assessment.
OnlySuccessfulAnalysisIsSaved ==
    [][/\ (/\ last'.op = "analyze"
            /\ \/ ~last'.inputs_given
               \/ last'.resume_text \in {NotRun, NoText}
               \/ last'.resume_text.text = <<>>
               \/ last'.analysis_result \in {NotRun, NoAnalysis})
          => /\ analysis_history' = analysis_history
             /\ history_seq' = history_seq
             /\ session'.page = session.page
             /\ session'.page = "upload"
       /\ ~(analysis_history' \subseteq analysis_history)
          => /\ last'.op = "analyze"
             /\ last'.inputs_given
             /\ last'.resume_text \notin {NotRun, NoText}
             /\ last'.resume_text.text # <<>>
             /\ last'.analysis_result \notin {NotRun, NoAnalysis}
             /\ Cardinality(analysis_history' \ analysis_history) = 1]_vars

\* An analysis of a PDF whose text is empty ended on the upload page.
EmptyTextRejected ==
    /\ last.op = "analyze"
    /\ last.inputs_given
    /\ last.resume_text = [kind |-> "str", text |-> <<>>]
    /\ session.page = "upload"

\* C8: every record of the history table has a match_score within 0..100.
StoredScoreWithinRange ==
    \A r \in analysis_history : r.match_score \in 0..100

\* The Assessment a JSON object with the four keys encodes.
AssessmentOf(obj) ==
    [kind |-> "dict",
     fields |-> [k \in DOMAIN obj |->
                    IF k = "match_score" THEN [t |-> "int", v |-> int(obj[k])]
                    ELSE obj[k]]]

\* C9: a response that is one JSON object with the four required keys and an
\* integer score, with prose or code-fence markers around it, yields the
\* Assessment the object encodes.
SurroundedObjectIsParsed ==
    (/\ assessment # NotRun
     /\ ~response.raises
     /\ required_fields \subseteq DOMAIN ObjectOf(response)
     /\ ~int_raises(ObjectOf(response)["match_score"]))
    => assessment = AssessmentOf(ObjectOf(response))

\* C10: get_user_history returns only the account's records, at most limit
\* of them, the later-saved before the earlier-saved, and they are the limit
\* most recently saved ones.
HistoryNewestFirst ==
    \A user_id \in 1..MaxUsers, limit \in 0..(MaxRecords + 1) :
        \A h \in get_user_history(analysis_history, user_id, limit) :
            /\ Len(h) <= limit
            /\ \A i \in DOMAIN h : /\ h[i] \in analysis_history
                                    /\ h[i].user_id = user_id
            /\ \A i, j \in DOMAIN h : i < j => h[i].id > h[j].id
            /\ \A r \in analysis_history :
                  (r.user_id = user_id /\ \A i \in DOMAIN h : h[i] # r)
                  => /\ Len(h) = limit
                     /\ \A i \in DOMAIN h : h[i].id > r.id

\* C11: a registration that create_user refuses is reported to the user as
\* the username being taken only when the refusal was the uniqueness
\* violation of users.username; any other store error is told apart from it.
OnlyDuplicateReportedAsTaken ==
    (last.op = "register" /\ last.called
     /\ last.msg = "Username already exists")
    => last.exc = "IntegrityError"

\* C12: get_user_stats of an account without records returns the count 0 and
\* a zero, never a null, for the average, the maximum and the minimum; of an
\* account with records it returns the count, the average, the maximum and
\* the minimum of the match scores of that account's records alone.
IsZero(x) == x = SqlInt(0) \/ (x.t = "real" /\ x.num = 0)

StatsDefinedForEveryAccount ==
    last.op = "get_user_stats" =>
        LET own == {r \in analysis_history : r.user_id = last.user_id}
            scores == {r.match_score : r \in own}
        IN  IF own = {}
            THEN /\ last.ret.total_analyses = SqlInt(0)
                 /\ IsZero(last.ret.avg_score)
                 /\ IsZero(last.ret.best_score)
                 /\ IsZero(last.ret.lowest_score)
            ELSE /\ last.ret.total_analyses = SqlInt(Cardinality(own))
                 /\ last.ret.avg_score = SqlReal(total(own), Cardinality(own))
                 /\ last.ret.best_score.v \in scores
                 /\ \A m \in scores : m <= last.ret.best_score.v
                 /\ last.ret.lowest_score.v \in scores
                 /\ \A m \in scores : m >= last.ret.lowest_score.v

\* C13: the results page shows and exports only a result that the logged-in
\* user produced by a successful analysis since logging in.  The session gets
\* onto the results page only by a successful Analyze Resume of the user who
\* is logged in, which puts its own result, filename and job title into the
\* session and saves them under that user's id; while the session stays on
\* the results page nothing of it changes; and what the page draws or
\* exports is what the session holds.  A result left behind by a user who
\* logged out is therefore never drawn or exported for the next user.
OnResults(s) == s.logged_in /\ s.page = "results"

StaleResultNeverShown ==
    [][/\ (OnResults(session') /\ ~OnResults(session)) =>
              /\ session.logged_in
              /\ session'.user_id = session.user_id
              /\ last'.op = "analyze" /\ last'.outcome = "ok"
              /\ session'.analysis_result = last'.analysis_result
              /\ session'.analysis_result # NoAnalysis
              /\ \E r \in analysis_history' \ analysis_history :
                     /\ r.user_id = session'.user_id
                     /\ r.filename = session'.uploaded_filename
                     /\ r.job_title = session'.job_title
                     /\ r.match_score =
                            session'.analysis_result.fields["match_score"].v
       /\ (OnResults(session) /\ OnResults(session')) => session' = session
       /\ last'.op = "results_page" =>
              /\ OnResults(session) /\ session' = session
              /\ last'.result = session.analysis_result
              /\ last'.result # Unset
       /\ last'.op = "export_analysis" =>
              /\ OnResults(session) /\ session' = session
              /\ last'.report_text.match_score =
                     session.analysis_result.fields["match_score"]
              /\ last'.report_text.resume_file = session.uploaded_filename
              /\ last'.report_text.target_job = session.job_title
      ]_vars

\* A second user sees the result of an analysis of their own on the results
\* page, with a score other than that of the analysis an earlier user of the
\* session had saved.
NextUserSeesOwnResult ==
    /\ last.op = "results_page"
    /\ \E r1, r2 \in analysis_history :
           /\ r1.user_id # session.user_id
           /\ r2.user_id = session.user_id
           /\ r1.id < r2.id
           /\ r1.match_score # r2.match_score
           /\ last.result.fields["match_score"].v = r2.match_score

====
